---- MODULE Spec2Model ----
(***************************************************************************)
(* A model of monitor.py: the per-item baseline / signal-detection loop of *)
(* main(), the history store it maintains, and the pure helpers it calls   *)
(* (window_values, short_window, robust_median, robust_mean,               *)
(* baselines_from_history, estimate_new_sales).                            *)
(*                                                                         *)
(* Conventions of the translation                                          *)
(*  - Time is counted in ticks, SubSec ticks to the second.  `now` of a    *)
(*    run has tick precision (datetime.now carries microseconds), a stored *)
(*    timestamp is now.replace(microsecond=0).isoformat(): a whole second. *)
(*    A stored timestamp is the tick count of that second; BadTs stands    *)
(*    for a stored string datetime.fromisoformat cannot parse.             *)
(*  - Python None is the integer None (-1); prices and counts are >= 0.    *)
(*  - Prices are whole rubles.  statistics.median of an even number of     *)
(*    values is the mean of the two middle ones, so robust_median returns  *)
(*    TWICE the median (an integer); robust_mean returns the fraction      *)
(*    [num, den] with den = 0 for None.  Threshold comparisons are the     *)
(*    source's comparisons cross-multiplied; float rounding is not         *)
(*    modelled.                                                            *)
(*  - A run ends in "idle" (report delivered) or in "aborted": the process *)
(*    was stopped inside the item loop, or save_state raised.  On an       *)
(*    aborted run the observer lastCombo goes back to what the state file  *)
(*    records, since the next run loads that file.  Telegram itself is     *)
(*    taken to answer (a network failure of the delivery is not modelled). *)
(*  - Line 433 of monitor.py is indented less than the `if` of line 432    *)
(*    that governs it; it only extends the report text and is read here as *)
(*    the body of that `if`.                                               *)
(***************************************************************************)
EXTENDS Integers, Sequences, FiniteSets, TLC

VARIABLES
    disk,           \* .state/state.json: key -> item record
    state,          \* main: the state dict of the running process
    pc,             \* position of main: "idle", "loop", "report", "aborted"
    items,          \* main: the catalog of this run (sequence of keys)
    idx,            \* main: number of catalog entries already iterated
    clock,          \* wall clock (ticks)
    now,            \* main: now (ticks)
    price_signals,  \* main: (severity, name, cur, base)
    vol_signals,    \* main: (name, now24h, base24h)
    combo_signals,  \* main: (name, severity)
    pump_signals,   \* main: (name, kind)
    notes,          \* main: notes ("WARN"/"ERROR", name)
    iters,          \* number of iterations of the item loop so far
    step,           \* observer: what the latest iteration of the item loop did
    sent,           \* what this run sent to the chat, in order
    log,            \* what this run printed
    saves,          \* observer: calls of save_state in this run
    failed,         \* observer: the writes of this run that failed
    loaded,         \* observer: the state file and lastCombo when the run loaded it
    lastCombo,      \* observer: key -> `now` of the run that emitted the combo
                    \* that `state` records for the key
    fn,             \* a direct call of one of the pure helpers: inputs and result
    fetch           \* a call of fetch_priceoverview: its locals and the responses

vars == <<disk, state, pc, items, idx, clock, now, price_signals, vol_signals,
          combo_signals, pump_signals, notes, iters, step, sent, log, saves,
          failed, loaded, lastCombo, fn, fetch>>

runVars == <<disk, state, pc, items, idx, clock, now, price_signals, vol_signals,
             combo_signals, pump_signals, notes, iters, step, sent, log, saves,
             failed, loaded, lastCombo>>

\* the signal lists and notes of main()
listVars == <<price_signals, vol_signals, combo_signals, pump_signals, notes>>

\* what a run sent, printed and wrote
ioVars == <<sent, log, saves, failed>>

----------------------------------------------------------------------------
(* Bounds of the model *)

SubSec == 2         \* ticks per second
MaxIters == 2       \* iterations of the item loop in one behaviour
MaxLen == 6         \* longest history handed to a direct helper call
MaxRetries == 2     \* largest `retries` handed to fetch_priceoverview

(* Units and the literal constants of the source *)

None == -1
BadTs == -2

Second == SubSec
Minute == 60 * Second
Hour == 60 * Minute
Day == 24 * Hour

RetentionDays == 60
PrimaryDays == 7
ReducedDays == 3
ReducedFloor == 6
MinutesPerDay == 1440

(* Configuration read by main().  The thresholds are the defaults of the   *)
(* source; the minimum sample counts are configured small (the source      *)
(* reads them from config.yaml) so that short histories exercise them.     *)

min_sales == 1
combo_cd_h == 6
PctDen == 100
soft_pct == 90          \* 0.90
deep_pct == 85          \* 0.85
p_min_pts == 2
spike_mult == 15        \* 1.5, in tenths
v_min_pts == 2
short_minutes == 120
pump_min_pts == 2
price_jump_pct == 8     \* 0.08
ask_jump_pct == 10      \* 0.10
breakout_n == 3
breakout_eps == 3       \* 0.03
momentum_mult == 18     \* 1.8, in tenths
confirm_price == 4      \* 0.04

----------------------------------------------------------------------------
(* Small helpers *)

Max2(a, b) == IF a >= b THEN a ELSE b
Min2(a, b) == IF a <= b THEN a ELSE b

Range(s) == {s[i] : i \in 1..Len(s)}

RECURSIVE SumSeq(_)
SumSeq(s) == IF s = <<>> THEN 0 ELSE Head(s) + SumSeq(Tail(s))

MaxSeq(s) == CHOOSE v \in Range(s) : \A w \in Range(s) : w <= v

\* the k-th smallest element of a non-empty sequence (sorted(vals)[k-1])
KthSmallest(s, k) ==
    CHOOSE v \in Range(s) :
        /\ Cardinality({i \in 1..Len(s) : s[i] < v}) < k
        /\ Cardinality({i \in 1..Len(s) : s[i] <= v}) >= k

\* the last n elements of s (s[-n:], n > 0)
LastN(s, n) == IF n >= Len(s) THEN s ELSE SubSeq(s, Len(s) - n + 1, Len(s))

\* datetime.fromisoformat(ts.replace("Z", "+00:00")) succeeds
Parses(ts) == ts # BadTs

\* now.replace(microsecond=0).isoformat()
IsoOf(t) == (t \div SubSec) * SubSec

----------------------------------------------------------------------------
(* window_values, short_window: the values of field `key` of the records   *)
(* whose timestamp parses and is not before the cutoff                     *)

InWindowStrict(p, cutoff) == Parses(p.ts) /\ p.ts > cutoff

InWindow(p, cutoff) == Parses(p.ts) /\ p.ts >= cutoff

FieldValues(hist, cutoff, key) ==
    LET sel == SelectSeq(hist, LAMBDA p : InWindow(p, cutoff) /\ p[key] # None)
    IN  [i \in 1..Len(sel) |-> sel[i][key]]

window_values(rec_history, now_utc, days, key) ==
    FieldValues(rec_history, now_utc - days * Day, key)

\* short_window returns (vals, ts_vals); every caller drops ts_vals
short_window(rec_history, now_utc, minutes, key) ==
    FieldValues(rec_history, now_utc - minutes * Minute, key)

\* twice statistics.median(vals), None for no values
robust_median(vals) ==
    IF vals = <<>> THEN None
    ELSE LET n == Len(vals)
         IN  IF n % 2 = 1
             THEN 2 * KthSmallest(vals, (n + 1) \div 2)
             ELSE KthSmallest(vals, n \div 2) + KthSmallest(vals, n \div 2 + 1)

\* sum(vals) / len(vals) as a fraction, den = 0 for None
robust_mean(vals) ==
    IF vals = <<>> THEN [num |-> 0, den |-> 0]
    ELSE [num |-> SumSeq(vals), den |-> Len(vals)]

NonNone(hist, key) ==
    LET sel == SelectSeq(hist, LAMBDA p : p[key] # None)
    IN  [i \in 1..Len(sel) |-> sel[i][key]]

ReducedThresholdNoFloor(min_points) == min_points \div 2

ReducedThreshold(min_points) == Max2(ReducedFloor, min_points \div 2)

baselines_from_history(hist, now_utc, min_points) ==
    LET m7 == window_values(hist, now_utc, PrimaryDays, "median")
        s7 == window_values(hist, now_utc, PrimaryDays, "sales24h")
        m3 == window_values(hist, now_utc, ReducedDays, "median")
        s3 == window_values(hist, now_utc, ReducedDays, "sales24h")
    IN  IF Len(m7) < min_points \/ Len(s7) < min_points
        THEN IF /\ Len(m3) >= ReducedThreshold(min_points)
                /\ Len(s3) >= ReducedThreshold(min_points)
             THEN [m_base |-> robust_median(m3), s_base |-> robust_mean(s3),
                   used_days |-> "3", hist_len |-> Len(hist)]
             ELSE [m_base |-> robust_median(NonNone(hist, "median")),
                   s_base |-> robust_mean(NonNone(hist, "sales24h")),
                   used_days |-> "all", hist_len |-> Len(hist)]
        ELSE [m_base |-> robust_median(m7), s_base |-> robust_mean(s7),
              used_days |-> "7", hist_len |-> Len(hist)]

----------------------------------------------------------------------------
(* estimate_new_sales.  The elapsed time is passed in ticks (dt_minutes of *)
(* the source is dt / Minute); the result is int(est) for est > 0, else 0. *)

DayTicks == MinutesPerDay * Minute

estimate_new_sales_unfloored(prev_sales24h, curr_sales24h, dt) ==
    IF prev_sales24h = None \/ curr_sales24h = None \/ dt = None THEN None
    ELSE LET factor == Max2(0, Min2(DayTicks, dt))
             est == curr_sales24h * DayTicks - prev_sales24h * (DayTicks - factor)
         IN  est \div DayTicks

estimate_new_sales(prev_sales24h, curr_sales24h, dt) ==
    IF prev_sales24h = None \/ curr_sales24h = None \/ dt = None THEN None
    ELSE LET factor == Max2(0, Min2(DayTicks, dt))      \* factor * DayTicks
             est == curr_sales24h * DayTicks - prev_sales24h * (DayTicks - factor)
         IN  IF est > 0 THEN est \div DayTicks ELSE 0

----------------------------------------------------------------------------
(* The state file and the inputs of a run                                  *)

Keys == {"A", "B"}

\* build_market_names: a key may be listed more than once (the same team,
\* player or variant named twice in config.yaml)
Catalogs == {<<"A">>, <<"A", "B">>, <<"A", "A">>}

\* state.get(key, {"last": None, "history": [], "last_alerts": {}}); the
\* field `stored` tells whether the key is in the state dict
DefaultRec == [stored |-> FALSE, last |-> <<>>, history |-> <<>>,
               last_alerts |-> [combo |-> None]]

T0 == 70 * Day

Point(ts, median, sales24h) == [ts |-> ts, median |-> median, sales24h |-> sales24h]

Snapshot(median, ask, sales24h, ts) ==
    [median |-> median, ask |-> ask, sales24h |-> sales24h, ts |-> ts]

StoredRec(history, last) ==
    [stored |-> TRUE, last |-> <<last>>, history |-> history,
     last_alerts |-> [combo |-> None]]

\* state files left by earlier runs: none; for A two recent points, or a
\* point as old as the retention horizon, taken when the median price did
\* not parse, or an entry whose timestamp does not parse; for B alone (A was
\* not in the catalog yet) two recent points
StoredHistories ==
    { <<Point(T0 - Hour, 100, 10), Point(T0 - 30 * Minute, 100, 10)>>,
      <<Point(T0 + Hour - RetentionDays * Day, None, 10),
        Point(T0 - 30 * Minute, 100, 10)>>,
      <<Point(BadTs, 100, 10), Point(T0 - 30 * Minute, 100, 10)>> }

\* load_state when there is no state.json, or one that does not parse
EmptyState == [k \in Keys |-> DefaultRec]

StateFiles ==
    {EmptyState} \cup
    {[k \in Keys |-> IF k = "A"
                     THEN StoredRec(h, Snapshot(100, 100, 10, T0 - 30 * Minute))
                     ELSE DefaultRec] : h \in StoredHistories} \cup
    {[k \in Keys |-> IF k = "B"
                     THEN StoredRec(<<Point(T0 - Hour, 100, 10),
                                      Point(T0 - 30 * Minute, 100, 10)>>,
                                    Snapshot(100, 100, 10, T0 - 30 * Minute))
                     ELSE DefaultRec]}

\* time between the starts of two runs
Deltas == {1, Hour, combo_cd_h * Hour - 1}

\* what fetch_priceoverview hands back: it raises, or returns a dict whose
\* prices parse to median / ask (None when they do not) and whose volume
\* parses to sales24h.  Steam quotes no zero price.
Responses ==
    { [kind |-> "raise", success |-> FALSE, median |-> None, ask |-> None, sales24h |-> 0],
      [kind |-> "json", success |-> FALSE, median |-> None, ask |-> None, sales24h |-> 0],
      [kind |-> "json", success |-> TRUE, median |-> 100, ask |-> 100, sales24h |-> 10],
      [kind |-> "json", success |-> TRUE, median |-> 80, ask |-> 80, sales24h |-> 30],
      [kind |-> "json", success |-> TRUE, median |-> 80, ask |-> None, sales24h |-> 10],
      [kind |-> "json", success |-> TRUE, median |-> 88, ask |-> 88, sales24h |-> 10],
      [kind |-> "json", success |-> TRUE, median |-> 112, ask |-> 112, sales24h |-> 30],
      [kind |-> "json", success |-> TRUE, median |-> None, ask |-> 112, sales24h |-> 10],
      [kind |-> "json", success |-> TRUE, median |-> 100, ask |-> 100, sales24h |-> 0] }

\* no helper has been called directly
NoCall == [op |-> "none", days |-> 0, key |-> "median", vals |-> <<>>,
           m_base |-> None, s_base |-> [num |-> 0, den |-> 0],
           used_days |-> "none", est |-> None]

\* no arguments for estimate_new_sales
NoSales == [prev_sales24h |-> None, curr_sales24h |-> None, dt |-> None]

\* fetch_priceoverview has not been called directly
NoFetch == [retries |-> 0, attempt |-> 0, requests |-> 0, status |-> "none",
            seen |-> <<>>]

NoStep == [outcome |-> "none", key |-> "A", median |-> None, ask |-> None,
           sales24h |-> None, rec |-> DefaultRec, prev_combo |-> None,
           base_median |-> None, base_sales |-> [num |-> 0, den |-> 0],
           used_days |-> "none", short_meds |-> <<>>,
           n_price |-> 0, n_vol |-> 0, n_combo |-> 0, n_pump |-> 0]

Init ==
    /\ disk \in StateFiles
    /\ state = disk
    /\ pc = "idle"
    /\ items = <<>>
    /\ idx = 0
    /\ clock = T0
    /\ now = T0
    /\ price_signals = <<>>
    /\ vol_signals = <<>>
    /\ combo_signals = <<>>
    /\ pump_signals = <<>>
    /\ notes = <<>>
    /\ iters = 0
    /\ step = NoStep
    /\ sent = <<>>
    /\ log = <<>>
    /\ saves = 0
    /\ failed = {}
    /\ lastCombo = [k \in Keys |-> None]
    /\ loaded = [disk |-> disk, lastCombo |-> lastCombo]
    /\ fn = [hist |-> <<>>, now_utc |-> 0, min_points |-> 0, sales |-> NoSales,
             out |-> NoCall]
    /\ fetch = NoFetch

----------------------------------------------------------------------------
(* main(): load_state and the set-up before the item loop (lines 336-357)   *)

StartRun ==
    /\ pc \in {"idle", "aborted"}
    /\ \E cat \in Catalogs, d \in Deltas :
          /\ iters + Len(cat) <= MaxIters
          /\ items' = cat
          /\ clock' = clock + d
          /\ now' = clock + d
    /\ state' = disk
    /\ idx' = 0
    /\ price_signals' = <<>>
    /\ vol_signals' = <<>>
    /\ combo_signals' = <<>>
    /\ pump_signals' = <<>>
    /\ notes' = <<>>
    /\ step' = NoStep
    /\ sent' = <<>>
    /\ log' = <<>>
    /\ saves' = 0
    /\ failed' = {}
    /\ loaded' = [disk |-> disk, lastCombo |-> lastCombo]
    /\ pc' = "loop"
    /\ UNCHANGED <<disk, iters, lastCombo, fn, fetch>>

----------------------------------------------------------------------------
(* The detectors of one iteration, as functions of the locals of main()    *)

\* lines 439-446: "deep", "soft" or "none"
SeverityOfSoftFirst(median, base_median2, hist_len) ==
    IF median # None /\ base_median2 # None /\ hist_len >= p_min_pts
    THEN IF median * 2 * PctDen <= base_median2 * soft_pct THEN "soft"
         ELSE IF median * 2 * PctDen <= base_median2 * deep_pct THEN "deep"
         ELSE "none"
    ELSE "none"

SeverityOf(median, base_median2, hist_len) ==
    IF median # None /\ base_median2 # None /\ hist_len >= p_min_pts
    THEN IF median * 2 * PctDen <= base_median2 * deep_pct THEN "deep"
         ELSE IF median * 2 * PctDen <= base_median2 * soft_pct THEN "soft"
         ELSE "none"
    ELSE "none"

\* lines 451-452, 457-458: sales24h / base_sales >= spike_mult
RatioSpikes(sales24h, base_sales) ==
    sales24h * base_sales.den * 10 >= spike_mult * base_sales.num

\* lines 450-453
VolumeFires(sales24h, base_sales, hist_len) ==
    /\ base_sales.den # 0
    /\ base_sales.num > 0
    /\ hist_len >= v_min_pts
    /\ RatioSpikes(sales24h, base_sales)

\* lines 459-467: in_cd
InCooldownInclusive(last_combo_iso, now_utc) ==
    /\ last_combo_iso # None
    /\ Parses(last_combo_iso)
    /\ now_utc - last_combo_iso <= combo_cd_h * Hour

InCooldown(last_combo_iso, now_utc) ==
    /\ last_combo_iso # None
    /\ Parses(last_combo_iso)
    /\ now_utc - last_combo_iso < combo_cd_h * Hour

\* lines 456-468
ComboFiresNoVolume(severity, sales24h, base_sales, hist_len, last_combo_iso, now_utc) ==
    /\ severity # "none"
    /\ hist_len >= Max2(p_min_pts, v_min_pts)
    /\ ~InCooldown(last_combo_iso, now_utc)

ComboFires(severity, sales24h, base_sales, hist_len, last_combo_iso, now_utc) ==
    /\ severity # "none"
    /\ base_sales.den # 0
    /\ base_sales.num > 0
    /\ hist_len >= Max2(p_min_pts, v_min_pts)
    /\ RatioSpikes(sales24h, base_sales)
    /\ ~InCooldown(last_combo_iso, now_utc)

\* lines 474-475 (value = median) and 480-481 (value = ask)
JumpFires(value, short_base_med2, n_short, pct) ==
    /\ value # None
    /\ short_base_med2 # None
    /\ n_short >= pump_min_pts
    /\ value * 2 * PctDen >= short_base_med2 * (PctDen + pct)

\* lines 486-488
BreakoutFires(median, short_meds) ==
    /\ median # None
    /\ Len(short_meds) >= Max2(pump_min_pts, breakout_n)
    /\ LET local_max == IF breakout_n <= Len(short_meds)
                        THEN MaxSeq(LastN(short_meds, breakout_n))
                        ELSE MaxSeq(short_meds)
       IN  median * PctDen >= local_max * (PctDen + breakout_eps)

\* lines 493-495; dt in ticks, None when there is no parseable last timestamp
MomentumFires(median, base_sales, sold_since, dt, last_median) ==
    /\ base_sales.den # 0
    /\ base_sales.num > 0
    /\ sold_since # None
    /\ dt # None
    /\ dt > 0
    /\ last_median # None
    \* sold_since / (dt_minutes / 60) >= (base_sales / 24) * momentum_mult
    /\ dt <= (sold_since * Hour * base_sales.den * 240) \div (base_sales.num * momentum_mult)
    /\ median # None
    /\ median * PctDen >= last_median * (PctDen + confirm_price)

\* line 503: the entry stays in the history
RetainedStrict(p, cutoff) == p.ts > cutoff

Retained(p, cutoff) == p.ts >= cutoff

----------------------------------------------------------------------------
(* One iteration of the item loop (lines 359-508) for catalog entry `key`  *)
(* and fetch result d.  Locals gives the locals of main() once the         *)
(* iteration has passed the two `continue`s.                               *)

\* line 501: hist_before + [p]
Prepended(hist_before, p) == <<p>> \o hist_before

Appended(hist_before, p) == Append(hist_before, p)

Locals(key, d) ==
    LET rec == IF state[key].stored THEN state[key] ELSE DefaultRec
        has_last == rec.last # <<>>
        last_median == IF has_last THEN rec.last[1].median ELSE None
        last_sales == IF has_last THEN rec.last[1].sales24h ELSE None
        last_ts_iso == IF has_last THEN rec.last[1].ts ELSE None
        dt == IF last_ts_iso # None /\ Parses(last_ts_iso)
              THEN now - last_ts_iso ELSE None
        sold_since == estimate_new_sales(last_sales, d.sales24h, dt)
        hist_before == rec.history
        base == baselines_from_history(hist_before, now, Min2(p_min_pts, v_min_pts))
        short_meds == short_window(hist_before, now, short_minutes, "median")
        short_base_med == robust_median(short_meds)
        severity == SeverityOf(d.median, base.m_base, Len(hist_before))
        hist_after == Appended(hist_before, Point(IsoOf(now), d.median, d.sales24h))
    IN  [rec |-> rec,
         base |-> base,
         short_meds |-> short_meds,
         sold_since |-> sold_since,
         severity |-> severity,
         volume |-> VolumeFires(d.sales24h, base.s_base, Len(hist_before)),
         combo |-> ComboFires(severity, d.sales24h, base.s_base, Len(hist_before),
                              rec.last_alerts.combo, now),
         price_jump |-> JumpFires(d.median, short_base_med, Len(short_meds),
                                  price_jump_pct),
         ask_jump |-> JumpFires(d.ask, short_base_med, Len(short_meds), ask_jump_pct),
         breakout |-> BreakoutFires(d.median, short_meds),
         momentum |-> MomentumFires(d.median, base.s_base, sold_since, dt, last_median),
         \* line 503 parses every stored timestamp outside any try of its own
         raises |-> \E i \in 1..Len(hist_after) : ~Parses(hist_after[i].ts),
         history |-> SelectSeq(hist_after,
                               LAMBDA p : Retained(p, now - RetentionDays * Day))]

Observed(outcome, key, d, L) ==
    [outcome |-> outcome, key |-> key, median |-> d.median, ask |-> d.ask,
     sales24h |-> d.sales24h, rec |-> L.rec, prev_combo |-> lastCombo[key],
     base_median |-> L.base.m_base, base_sales |-> L.base.s_base,
     used_days |-> L.base.used_days,
     short_meds |-> L.short_meds,
     n_price |-> Len(price_signals), n_vol |-> Len(vol_signals),
     n_combo |-> Len(combo_signals), n_pump |-> Len(pump_signals)]

\* lines 367 and 508: the notes a fetch that gave no data leaves
FetchNotesErrorOnly(key, d) ==
    IF d.kind = "raise" THEN <<[level |-> "ERROR", name |-> key]>>
    ELSE <<>>

FetchNotes(key, d) ==
    IF d.kind = "raise" THEN <<[level |-> "ERROR", name |-> key]>>
    ELSE IF ~d.success THEN <<[level |-> "WARN", name |-> key]>>
    ELSE <<>>

\* lines 365-368, 375-376: the fetch raised, success was false, or too few sales
Skip(key, d) ==
    /\ \/ d.kind = "raise"
       \/ ~d.success
       \/ d.sales24h < min_sales
    /\ notes' = notes \o FetchNotes(key, d)
    /\ step' = Observed(IF d.kind = "raise" THEN "raise"
                        ELSE IF ~d.success THEN "nosuccess" ELSE "lowsales",
                        key, d,
                        [rec |-> IF state[key].stored THEN state[key] ELSE DefaultRec,
                         base |-> [m_base |-> None, s_base |-> [num |-> 0, den |-> 0],
                                   used_days |-> "none"],
                         short_meds |-> <<>>])
    /\ UNCHANGED <<state, price_signals, vol_signals, combo_signals, pump_signals,
                   lastCombo>>

\* line 505: state[key] = rec
PutAll(st, key, rec) == [k \in Keys |-> rec]

Put(st, key, rec) == [st EXCEPT ![key] = rec]

\* lines 378-508
Evaluate(key, d) ==
    /\ d.kind = "json" /\ d.success /\ d.sales24h >= min_sales
    /\ LET L == Locals(key, d)
           now_iso == IsoOf(now)
           last_alerts == IF L.combo THEN [L.rec.last_alerts EXCEPT !.combo = now_iso]
                          ELSE L.rec.last_alerts
       IN  /\ price_signals' =
                 IF L.severity # "none"
                 THEN Append(price_signals,
                             [severity |-> L.severity, name |-> key, cur |-> d.median,
                              base |-> L.base.m_base])
                 ELSE price_signals
           /\ vol_signals' =
                 IF L.volume
                 THEN Append(vol_signals,
                             [name |-> key, now24h |-> d.sales24h, base24h |-> L.base.s_base])
                 ELSE vol_signals
           /\ combo_signals' =
                 IF L.combo
                 THEN Append(combo_signals, [name |-> key, severity |-> L.severity])
                 ELSE combo_signals
           /\ pump_signals' =
                 pump_signals
                 \o (IF L.price_jump THEN <<[name |-> key, kind |-> "PRICE-JUMP"]>> ELSE <<>>)
                 \o (IF L.ask_jump THEN <<[name |-> key, kind |-> "ASK-JUMP"]>> ELSE <<>>)
                 \o (IF L.breakout THEN <<[name |-> key, kind |-> "BREAKOUT"]>> ELSE <<>>)
                 \o (IF L.momentum THEN <<[name |-> key, kind |-> "MOMENTUM"]>> ELSE <<>>)
           /\ lastCombo' = IF L.combo THEN [lastCombo EXCEPT ![key] = now] ELSE lastCombo
           /\ IF L.raises
              THEN \* rec["last_alerts"] was already assigned (line 471); rec is the
                   \* dict held by state when the key was stored
                   /\ state' = IF L.rec.stored
                               THEN [state EXCEPT ![key].last_alerts = last_alerts]
                               ELSE state
                   /\ notes' = Append(notes, [level |-> "ERROR", name |-> key])
                   /\ step' = Observed("error", key, d, L)
              ELSE /\ state' = Put(state, key,
                                   [stored |-> TRUE,
                                    last |-> <<Snapshot(d.median, d.ask, d.sales24h, now_iso)>>,
                                    history |-> L.history,
                                    last_alerts |-> last_alerts])
                   /\ notes' = notes
                   /\ step' = Observed("updated", key, d, L)

ProcessItem ==
    /\ pc = "loop"
    /\ idx < Len(items)
    /\ \E d \in Responses : Skip(items[idx + 1], d) \/ Evaluate(items[idx + 1], d)
    /\ idx' = idx + 1
    /\ iters' = iters + 1
    /\ UNCHANGED <<disk, pc, items, clock, now, ioVars, loaded, fn, fetch>>

\* line 359: the for loop has gone through the catalog
LoopDoneEarly == idx >= 1

LoopDone == idx = Len(items)

\* the process is stopped inside the item loop (a signal, KeyboardInterrupt
\* or SystemExit: none is an Exception, so line 507 does not catch it); what
\* state.json records is what the run loaded
Abort ==
    /\ pc = "loop"
    /\ ~LoopDone
    /\ pc' = "aborted"
    /\ lastCombo' = loaded.lastCombo
    \* the iterations the run did not get to count against MaxIters
    /\ iters' = iters + (Len(items) - idx)
    /\ UNCHANGED <<disk, state, items, idx, clock, now, listVars, step,
                   ioVars, loaded, fn, fetch>>

\* line 510, save_state (lines 84-86).  main() has no handler around the
\* call: when mkdir or write_text raises, the exception leaves main(), the
\* interpreter prints the traceback and nothing after line 510 runs.
\* write_text opens state.json for writing before it writes, so a failed
\* write leaves either the old file (mkdir or open failed) or a file
\* load_state cannot parse, which it reads as {} (lines 77-80).
SaveState ==
    /\ pc = "loop"
    /\ LoopDone
    /\ saves' = saves + 1
    /\ \/ /\ disk' = state
          /\ pc' = "report"
          /\ UNCHANGED <<log, failed, lastCombo>>
       \/ /\ disk' \in {disk, EmptyState}
          /\ pc' = "aborted"
          /\ log' = Append(log, "Traceback")
          /\ failed' = failed \cup {"state"}
          /\ lastCombo' = IF disk' = disk THEN loaded.lastCombo
                          ELSE [k \in Keys |-> None]
    /\ UNCHANGED <<state, items, idx, clock, now, listVars, iters, step, sent,
                   loaded, fn, fetch>>

\* lines 512-596: the report is built from the lists, written to a local
\* file (a failure is printed, lines 569-573), the summary is sent (588) and
\* then the report as a document, or in chunks when Telegram refuses the
\* document (591-596)
Deliver ==
    /\ pc = "report"
    /\ \E file_ok \in BOOLEAN, ok \in BOOLEAN :
          /\ log' = IF file_ok THEN log
                    ELSE Append(log, "Cannot write report file")
          /\ failed' = IF file_ok THEN failed ELSE failed \cup {"report"}
          /\ sent' = IF ok THEN <<"summary", "document">>
                     ELSE <<"summary", "chunks">>
    /\ pc' = "idle"
    /\ UNCHANGED <<disk, state, items, idx, clock, now, listVars, iters, step,
                   saves, loaded, lastCombo, fn, fetch>>

Next == StartRun \/ ProcessItem \/ Abort \/ SaveState \/ Deliver

Spec == Init /\ [][Next]_vars

\* main() left to run: nothing stops the process from outside, and a
\* sequential program that can take its next step takes it
NextLive == StartRun \/ ProcessItem \/ SaveState \/ Deliver

SpecLive == Init /\ [][NextLive]_vars /\ WF_vars(ProcessItem) /\ WF_vars(SaveState)

----------------------------------------------------------------------------
(* Direct calls of the helpers on bounded inputs                           *)

FnNow == 70 * Day

FnTimes == {FnNow - PrimaryDays * Day, FnNow - ReducedDays * Day,
            FnNow - short_minutes * Minute, BadTs}

FnMedians == {None, 100}

\* stored oldest first; an unparseable entry may sit anywhere before them
FnOrdered(t) ==
    \A i \in 1..Len(t) - 1 : t[i] <= t[i + 1]

FnHistories ==
    UNION { { [i \in 1..n |-> Point(t[i], m[i], 10)] :
                t \in {u \in [1..n -> FnTimes] : FnOrdered(u)},
                m \in [1..n -> FnMedians] } : n \in 0..MaxLen }

FnMinPoints == {2, 7, 13}

\* main() is not running
FnIdle ==
    /\ disk = EmptyState /\ state = disk
    /\ pc = "idle" /\ items = <<>> /\ idx = 0
    /\ clock = FnNow /\ now = FnNow
    /\ price_signals = <<>> /\ vol_signals = <<>> /\ combo_signals = <<>>
    /\ pump_signals = <<>> /\ notes = <<>> /\ iters = 0
    /\ step = NoStep /\ lastCombo = [k \in Keys |-> None]
    /\ sent = <<>> /\ log = <<>> /\ saves = 0 /\ failed = {}
    /\ loaded = [disk |-> disk, lastCombo |-> lastCombo]

\* sales24h counts, and the time since the last observation in ticks: the
\* clock may have been set back, the last observation may be older than a
\* day (-1 tick, the encoding of None, is not among the elapsed times)
FnSales == {None, 0, 10, 30}

FnElapsed == {None, -Hour, 0, Hour, short_minutes * Minute, DayTicks, 2 * DayTicks}

\* the arguments of a baseline helper, or those of estimate_new_sales
InitFn ==
    /\ FnIdle
    /\ fetch = NoFetch
    /\ \/ \E h \in FnHistories, t \in {FnNow, FnNow + 1}, mp \in FnMinPoints :
             fn = [hist |-> h, now_utc |-> t, min_points |-> mp, sales |-> NoSales,
                   out |-> NoCall]
       \/ \E prev \in FnSales, curr \in FnSales, dt \in FnElapsed :
             fn = [hist |-> <<>>, now_utc |-> FnNow, min_points |-> p_min_pts,
                   sales |-> [prev_sales24h |-> prev, curr_sales24h |-> curr,
                              dt |-> dt],
                   out |-> NoCall]

CallWindowValues ==
    /\ fn.out.op = "none"
    /\ \E days \in {PrimaryDays, ReducedDays}, key \in {"median", "sales24h"} :
          fn' = [fn EXCEPT !.out = [NoCall EXCEPT
                    !.op = "window_values", !.days = days, !.key = key,
                    !.vals = window_values(fn.hist, fn.now_utc, days, key)]]
    /\ UNCHANGED <<runVars, fetch>>

CallShortWindow ==
    /\ fn.out.op = "none"
    /\ \E key \in {"median", "sales24h"} :
          fn' = [fn EXCEPT !.out = [NoCall EXCEPT
                    !.op = "short_window", !.key = key,
                    !.vals = short_window(fn.hist, fn.now_utc, short_minutes, key)]]
    /\ UNCHANGED <<runVars, fetch>>

CallBaselines ==
    /\ fn.out.op = "none"
    /\ LET b == baselines_from_history(fn.hist, fn.now_utc, fn.min_points)
       IN  fn' = [fn EXCEPT !.out = [NoCall EXCEPT
                    !.op = "baselines", !.m_base = b.m_base, !.s_base = b.s_base,
                    !.used_days = b.used_days]]
    /\ UNCHANGED <<runVars, fetch>>

CallEstimate ==
    /\ fn.out.op = "none"
    /\ fn' = [fn EXCEPT !.out = [NoCall EXCEPT
                 !.op = "estimate_new_sales",
                 !.est = estimate_new_sales(fn.sales.prev_sales24h,
                                            fn.sales.curr_sales24h, fn.sales.dt)]]
    /\ UNCHANGED <<runVars, fetch>>

NextFn == CallWindowValues \/ CallShortWindow \/ CallBaselines \/ CallEstimate

SpecFn == InitFn /\ [][NextFn]_vars

----------------------------------------------------------------------------
(* A call of fetch_priceoverview (lines 169-212): one step per request.    *)
(* fetch.attempt is the local `attempt`, fetch.requests counts the calls   *)
(* of requests.get, fetch.seen lists what they gave.                       *)

\* requests.get raised a RequestException: there is no response
NoResponse == 0

TooManyRequests == 429

ServerError == 500

ClientError == 400

\* line 199
RetryableStatus == {502, 503, 504}

\* what one requests.get can give: no response, a JSON body, a 200 whose
\* body is not JSON, 429, 5xx (one that line 199 lists and one it does
\* not), and a 4xx other than 429
FetchResponses ==
    { [code |-> NoResponse, json |-> FALSE],
      [code |-> 200, json |-> TRUE],
      [code |-> 200, json |-> FALSE],
      [code |-> TooManyRequests, json |-> FALSE],
      [code |-> ServerError, json |-> FALSE],
      [code |-> 502, json |-> FALSE],
      [code |-> 404, json |-> FALSE] }

\* lines 183, 189, 203, 210: if attempt > retries
ExhaustedLate(attempt, retries) == attempt > retries + 1

Exhausted(attempt, retries) == attempt > retries

\* attempt += 1; raise when exhausted, else go round the loop
Retry(f, attempt) ==
    [f EXCEPT !.attempt = attempt,
              !.status = IF Exhausted(attempt, f.retries) THEN "raised"
                         ELSE "running"]

InitFetch ==
    /\ FnIdle
    /\ fn = [hist |-> <<>>, now_utc |-> 0, min_points |-> 0, sales |-> NoSales,
             out |-> NoCall]
    /\ \E retries \in 0..MaxRetries :
          fetch = [retries |-> retries, attempt |-> 0, requests |-> 0,
                   status |-> "running", seen |-> <<>>]

\* one pass of the while loop.  resp.json() of a body that is not JSON
\* raises requests.JSONDecodeError, a RequestException, from requests 2.27
\* on and a plain ValueError before: both are outcomes.
FetchRequest ==
    /\ fetch.status = "running"
    /\ \E resp \in FetchResponses, json_error_is_request_exception \in BOOLEAN :
          LET f == [fetch EXCEPT !.requests = @ + 1, !.seen = Append(@, resp)]
              a == fetch.attempt + 1
          IN  fetch' =
                IF resp.code = NoResponse
                THEN Retry(f, a)                                \* lines 208-212
                ELSE IF resp.code = TooManyRequests
                THEN Retry(f, a)       \* 179-185; the HTTPError of 184 has no
                                       \* response, line 206 raises it again
                ELSE IF resp.code >= ServerError
                THEN IF Exhausted(a, f.retries)
                     THEN \* 190 raise_for_status, caught at 197
                          IF resp.code \in RetryableStatus
                          THEN Retry(f, a + 1)                  \* 199-205
                          ELSE [f EXCEPT !.attempt = a, !.status = "raised"]
                     ELSE [f EXCEPT !.attempt = a]              \* 191 continue
                ELSE IF resp.code >= ClientError
                THEN [f EXCEPT !.status = "raised"]             \* 193, 206
                ELSE IF resp.json
                THEN [f EXCEPT !.status = "returned"]           \* 194
                ELSE IF json_error_is_request_exception
                THEN Retry(f, a)
                ELSE [f EXCEPT !.status = "raised"]
    /\ UNCHANGED <<runVars, fn>>

NextFetch == FetchRequest

\* the call is left to run: every requests.get ends (timeout=30) and every
\* sleep is finite
SpecFetch == InitFetch /\ [][NextFetch]_vars /\ WF_vars(FetchRequest)

----------------------------------------------------------------------------
(* What the latest iteration of the item loop appended to the signal lists *)

Reached == step.outcome \in {"updated", "error"}

NewPrice == SubSeq(price_signals, step.n_price + 1, Len(price_signals))
NewVol == SubSeq(vol_signals, step.n_vol + 1, Len(vol_signals))
NewCombo == SubSeq(combo_signals, step.n_combo + 1, Len(combo_signals))
NewPump == SubSeq(pump_signals, step.n_pump + 1, Len(pump_signals))

Cooldown == combo_cd_h * Hour

CountIn(hist, cutoff, key) ==
    Cardinality({i \in 1..Len(hist) :
                    /\ hist[i].ts # BadTs
                    /\ hist[i].ts >= cutoff
                    /\ hist[i][key] # None})

CountAll(hist, key) == Cardinality({i \in 1..Len(hist) : hist[i][key] # None})

----------------------------------------------------------------------------
\* every timestamp of the state dict parses
StoredTimestampsParse ==
    \A k \in Keys : \A i \in 1..Len(state[k].history) : state[k].history[i].ts # BadTs

\* the catalog lists no key twice
NoDuplicateKeys == \A i, j \in 1..Len(items) : items[i] = items[j] => i = j

\* C1 as stated: when a run at time T emitted combo for X, a later run at T'
\* emits combo for X only if T' - T >= the combo cooldown (here for state
\* files whose timestamps all parse).
C1_CooldownFromRunTime ==
    (Reached /\ StoredTimestampsParse /\ NewCombo # <<>> /\ step.prev_combo # None)
        => now - step.prev_combo >= Cooldown

\* C1, amended: with T the recorded (whole-second) timestamp of the run that
\* emitted combo for X, an iteration for X at T' emits no combo while
\* T' - T < cooldown, and emits combo again when T' - T >= cooldown and the
\* observation fires both the price-discount and the volume-spike signal.
C1_CooldownFromRecordedTime ==
    (Reached /\ step.prev_combo # None)
        => /\ (now - IsoOf(step.prev_combo) < Cooldown => NewCombo = <<>>)
           /\ (now - IsoOf(step.prev_combo) >= Cooldown /\ NewPrice # <<>> /\ NewVol # <<>>
                  => Len(NewCombo) = 1)

\* a qualifying observation in a later run, suppressed by the cooldown
C1_Witness ==
    /\ Reached
    /\ step.prev_combo # None
    /\ step.prev_combo < now
    /\ NewPrice # <<>>
    /\ NewVol # <<>>
    /\ NewCombo = <<>>

----------------------------------------------------------------------------
MinPointsAll == Min2(Min2(p_min_pts, v_min_pts), pump_min_pts)

\* C2: an item whose stored history holds fewer than min_points entries
\* (whichever detector's min_points, in every window tier) gets no signal
\* event of any kind from an iteration (here for catalogs that list no key
\* twice and an item last observed an hour ago or earlier).
C2_ColdStartSilent ==
    ( /\ Reached
      /\ NoDuplicateKeys
      /\ step.rec.last # <<>> => now - step.rec.last[1].ts >= Hour
      /\ Len(step.rec.history) < MinPointsAll )
        => /\ NewPrice = <<>>
           /\ NewVol = <<>>
           /\ NewCombo = <<>>
           /\ NewPump = <<>>

----------------------------------------------------------------------------
\* the number of points that entered the baseline of field `key`
Entered(key) ==
    IF step.used_days = "7"
    THEN CountIn(step.rec.history, now - PrimaryDays * Day, key)
    ELSE IF step.used_days = "3"
    THEN CountIn(step.rec.history, now - ReducedDays * Day, key)
    ELSE CountAll(step.rec.history, key)

\* C3: no price-discount event when fewer than p_min_pts points entered the
\* median baseline, no volume-spike event when fewer than v_min_pts points
\* entered the sales baseline.
C3_SampleCountGate ==
    Reached => /\ (NewPrice # <<>> => Entered("median") >= p_min_pts)
               /\ (NewVol # <<>> => Entered("sales24h") >= v_min_pts)

----------------------------------------------------------------------------
\* C6: every combo event of a run comes with a price-discount and a
\* volume-spike event of the same run for the same item, the item was not in
\* combo cooldown in the state the run loaded, and the saved state records
\* the run's timestamp as the item's last combo.
C6_ComboImpliesBoth ==
    \A i \in 1..Len(combo_signals) :
        LET X == combo_signals[i].name
        IN  /\ \E j \in 1..Len(price_signals) : price_signals[j].name = X
            /\ \E j \in 1..Len(vol_signals) : vol_signals[j].name = X
            /\ pc = "loop"
                  => \/ disk[X].last_alerts.combo = None
                     \/ now - disk[X].last_alerts.combo >= Cooldown
            /\ pc \in {"report", "idle"}
                  => disk[X].last_alerts.combo = IsoOf(now)

C6_Witness ==
    /\ pc = "report"
    /\ combo_signals # <<>>

----------------------------------------------------------------------------
\* C7: with at least pump_min_pts but fewer than breakout_points median
\* samples in the short window, a current median >= max(samples) *
\* (1 + breakout_extra_pct) emits a breakout event.
C7_BreakoutOnShortWindow ==
    ( /\ Reached
      /\ step.median # None
      /\ Len(step.short_meds) >= pump_min_pts
      /\ Len(step.short_meds) < breakout_n
      /\ step.median * PctDen >= MaxSeq(step.short_meds) * (PctDen + breakout_eps) )
        => \E i \in 1..Len(NewPump) : NewPump[i].kind = "BREAKOUT"

----------------------------------------------------------------------------
DeepHolds == step.median * 2 * PctDen <= step.base_median * deep_pct
SoftHolds == step.median * 2 * PctDen <= step.base_median * soft_pct

SufficientHistory ==
    /\ Reached
    /\ step.median # None
    /\ step.base_median # None
    /\ Len(step.rec.history) >= p_min_pts

SeverityRule ==
    SufficientHistory
        => /\ Len(NewPrice) <= 1
           /\ DeepHolds => (Len(NewPrice) = 1 /\ NewPrice[1].severity = "deep")
           /\ (~DeepHolds /\ SoftHolds)
                  => (Len(NewPrice) = 1 /\ NewPrice[1].severity = "soft")
           /\ (~DeepHolds /\ ~SoftHolds) => NewPrice = <<>>

\* C8 as stated: a run emits at most one price-discount event for an item,
\* deep exactly when median <= baseline * deep_pct, soft exactly when that
\* fails and median <= baseline * soft_pct, none when both fail (here for
\* state files whose timestamps all parse).
C8_OnePerRun ==
    StoredTimestampsParse
        => /\ \A i, j \in 1..Len(price_signals) :
                 price_signals[i].name = price_signals[j].name => i = j
           /\ SeverityRule

\* C8, amended: each iteration of the item loop emits at most one
\* price-discount event for its item, with the severity rule as stated.
C8_OnePerIteration == SeverityRule

C8_Witness ==
    /\ SufficientHistory
    /\ DeepHolds
    /\ Len(NewPrice) = 1
    /\ NewPrice[1].severity = "deep"

----------------------------------------------------------------------------
\* C9: after a successful update at `now` the stored history is the previous
\* history restricted to timestamps >= now - 60 days, in order, followed by
\* the new record; no stored entry is older than 60 days before the run.
C9_AppendAndRetain ==
    step.outcome = "updated"
        => LET h == state[step.key].history
               kept == SelectSeq(step.rec.history,
                                 LAMBDA p : p.ts >= now - RetentionDays * Day)
           IN  /\ h = Append(kept, Point(IsoOf(now), step.median, step.sales24h))
               /\ \A i \in 1..Len(h) : h[i].ts >= now - RetentionDays * Day

\* an update that dropped an entry older than the horizon
C9_Witness ==
    /\ step.outcome = "updated"
    /\ Len(state[step.key].history) <= Len(step.rec.history)

----------------------------------------------------------------------------
\* C10: when the stored history holds an entry whose timestamp does not
\* parse, the update still succeeds: the new record is appended and the
\* malformed entry is dropped.
C10_MalformedTolerated ==
    (Reached /\ \E i \in 1..Len(step.rec.history) : step.rec.history[i].ts = BadTs)
        => /\ step.outcome = "updated"
           /\ LET h == state[step.key].history
              IN  /\ h # <<>>
                  /\ h[Len(h)] = Point(IsoOf(now), step.median, step.sales24h)
                  /\ \A i \in 1..Len(h) : h[i].ts # BadTs

----------------------------------------------------------------------------
\* the records of the history handed to the helper whose timestamp parses
\* and is not before the cutoff
RecordsIn(cutoff) ==
    Cardinality({i \in 1..Len(fn.hist) :
                    fn.hist[i].ts # BadTs /\ fn.hist[i].ts >= cutoff})

EmptyGivesNone ==
    fn.hist = <<>> => (fn.out.m_base = None /\ fn.out.s_base.den = 0)

\* C4 as stated: a history with fewer than min_points entries in the 7-day
\* window, in the 3-day window and as a whole gets window_used = "all", and
\* both baselines None when it is empty.
C4_SparseGivesAll ==
    fn.out.op = "baselines"
        => /\ ( /\ RecordsIn(fn.now_utc - PrimaryDays * Day) < fn.min_points
                /\ RecordsIn(fn.now_utc - ReducedDays * Day) < fn.min_points
                /\ Len(fn.hist) < fn.min_points )
              => fn.out.used_days = "all"
           /\ EmptyGivesNone

\* C4, amended: window_used = "all" when the 7-day window holds fewer than
\* min_points medians or sales and the 3-day window holds fewer than
\* max(6, min_points // 2) medians or sales; both baselines None when the
\* history is empty.
C4_BelowReducedGivesAll ==
    fn.out.op = "baselines"
        => LET c7 == fn.now_utc - PrimaryDays * Day
               c3 == fn.now_utc - ReducedDays * Day
               need == IF fn.min_points \div 2 > 6 THEN fn.min_points \div 2 ELSE 6
           IN  /\ ( /\ \/ CountIn(fn.hist, c7, "median") < fn.min_points
                       \/ CountIn(fn.hist, c7, "sales24h") < fn.min_points
                    /\ \/ CountIn(fn.hist, c3, "median") < need
                       \/ CountIn(fn.hist, c3, "sales24h") < need )
                  => fn.out.used_days = "all"
               /\ EmptyGivesNone

\* five medians in the 3-day window, one short of the reduced tier
C4_Witness ==
    /\ fn.out.op = "baselines"
    /\ fn.min_points = 7
    /\ CountIn(fn.hist, fn.now_utc - ReducedDays * Day, "median") = 5
    /\ fn.out.used_days = "all"

----------------------------------------------------------------------------
\* C5: window_values and short_window return one value per record whose
\* timestamp is >= now - window (equality included) and whose field is
\* present, and none for a record before now - window.
C5_InclusiveLowerBound ==
    /\ fn.out.op = "window_values"
          => Len(fn.out.vals) = CountIn(fn.hist, fn.now_utc - fn.out.days * Day, fn.out.key)
    /\ fn.out.op = "short_window"
          => Len(fn.out.vals)
                = CountIn(fn.hist, fn.now_utc - short_minutes * Minute, fn.out.key)

\* a single record stamped exactly now - 7 days, returned by window_values
C5_Witness ==
    /\ fn.out.op = "window_values"
    /\ fn.out.days = PrimaryDays
    /\ fn.out.key = "median"
    /\ Len(fn.hist) = 1
    /\ fn.hist[1].ts = fn.now_utc - PrimaryDays * Day
    /\ fn.hist[1].median # None
    /\ fn.out.vals = <<fn.hist[1].median>>

----------------------------------------------------------------------------
\* the latest iteration ended at line 368 or in the handler of line 507
\* because the fetch gave no data
FetchFailed == pc = "loop" /\ step.outcome \in {"raise", "nosuccess"}

\* C11: when the fetch for an item raises or returns success=false, a note
\* naming the item is recorded and the item's stored state (history, last
\* snapshot, last-alert map) is what it was; the run goes on through every
\* remaining catalog item and reaches the state save.
C11_FetchFailureIsolated ==
    /\ [](FetchFailed => /\ notes # <<>>
                         /\ notes[Len(notes)].name = step.key
                         /\ state[step.key] = step.rec)
    /\ [](FetchFailed => <>(saves = 1 /\ idx = Len(items)))

\* success=false for the first of two items, the second one updated, and
\* the state saved
C11_Witness ==
    /\ pc = "report"
    /\ items = <<"A", "B">>
    /\ notes = <<[level |-> "WARN", name |-> "A"]>>
    /\ state["A"] = loaded.disk["A"]
    /\ step.key = "B"
    /\ step.outcome = "updated"
    /\ saves = 1

----------------------------------------------------------------------------
\* C12: when writing the state snapshot or the local report file failed in
\* a run, the run that has ended logged the failure and sent the summary
\* message and the full report.
C12_PersistenceFailureDelivers ==
    (pc \in {"idle", "aborted"} /\ failed # {})
        => /\ log # <<>>
           /\ \E i \in 1..Len(sent) : sent[i] = "summary"
           /\ \E i \in 1..Len(sent) : sent[i] \in {"document", "chunks"}

----------------------------------------------------------------------------
\* C13: inside the item loop nothing has been saved and state.json is what
\* the run loaded; a run that got past the loop called save_state once, with
\* every catalog item iterated; a run stopped inside the loop leaves
\* state.json exactly as loaded.
C13_SavedOnceAtEnd ==
    /\ pc = "loop" => (saves = 0 /\ disk = loaded.disk)
    /\ (pc = "report" \/ (pc = "idle" /\ sent # <<>>))
          => (saves = 1 /\ idx = Len(items) /\ disk = state)
    /\ (pc = "aborted" /\ idx < Len(items)) => (saves = 0 /\ disk = loaded.disk)

\* stopped between the two items of a catalog, after the first was updated
C13_Witness ==
    /\ pc = "aborted"
    /\ idx = 1
    /\ Len(items) = 2
    /\ step.outcome = "updated"
    /\ state # disk
    /\ disk = loaded.disk

----------------------------------------------------------------------------
\* the timestamps of a history that parse are strictly increasing
StrictlyIncreasing(hist) ==
    \A i, j \in 1..Len(hist) :
        (i < j /\ hist[i].ts # BadTs /\ hist[j].ts # BadTs) => hist[i].ts < hist[j].ts

\* the saved history of k is the loaded one, or what retention left of the
\* loaded one, in order, followed by records of this run
AppendOnly(k) ==
    LET old == loaded.disk[k].history
        new == disk[k].history
        kept == SelectSeq(old, LAMBDA p : p.ts >= now - RetentionDays * Day)
    IN  \/ new = old
        \/ /\ Len(new) >= Len(kept)
           /\ SubSeq(new, 1, Len(kept)) = kept
           /\ \A i \in Len(kept) + 1..Len(new) : new[i].ts = IsoOf(now)

\* C14: across any sequence of runs the timestamps of each item's stored
\* history are strictly increasing in list order, and a saved history keeps
\* the loaded records unmodified and in order, less those retention pruned.
C14_StrictlyIncreasing ==
    \A k \in Keys :
        /\ StrictlyIncreasing(disk[k].history)
        /\ pc = "report" => AppendOnly(k)

----------------------------------------------------------------------------
\* estimate_new_sales was called and none of its arguments is None
EstimateCalled ==
    /\ fn.out.op = "estimate_new_sales"
    /\ fn.sales.prev_sales24h # None
    /\ fn.sales.curr_sales24h # None
    /\ fn.sales.dt # None

\* C15: estimate_new_sales returns None whenever previous sales, current
\* sales or elapsed time is None, and an integer >= 0 for all other inputs,
\* negative and longer-than-a-day elapsed times included.
C15_NoneOrNonNegative ==
    fn.out.op = "estimate_new_sales"
        => IF EstimateCalled THEN fn.out.est \in Nat ELSE fn.out.est = None

\* the clock went back an hour and sales fell: the estimate is 0
C15_Witness ==
    /\ EstimateCalled
    /\ fn.sales.dt < 0
    /\ fn.sales.curr_sales24h < fn.sales.prev_sales24h
    /\ fn.out.est = 0

----------------------------------------------------------------------------
\* round(num / den) for num >= 0, den > 0: to the nearest integer, a half to
\* the even neighbour
RoundHalfEven(num, den) ==
    LET q == num \div den
        r == num % den
    IN  IF 2 * r < den THEN q
        ELSE IF 2 * r > den THEN q + 1
        ELSE IF q % 2 = 0 THEN q ELSE q + 1

\* C16: for non-None inputs estimate_new_sales(prev, curr, dt) =
\* max(0, round(curr - prev * (1 - clamp(dt / 1440, 0, 1)))).
C16_RoundedToNearest ==
    EstimateCalled
        => LET clamped == Max2(0, Min2(DayTicks, fn.sales.dt))
               num == fn.sales.curr_sales24h * DayTicks
                         - fn.sales.prev_sales24h * (DayTicks - clamped)
           IN  fn.out.est = IF num > 0 THEN RoundHalfEven(num, DayTicks) ELSE 0

----------------------------------------------------------------------------
\* n entries are at least max(6, min_points / 2), the half taken as a real
AtLeastRealHalf(n, min_points) == n >= ReducedFloor /\ 2 * n >= min_points

\* C20: when the 7-day tier fails (either collection holds fewer than
\* min_points entries), baselines_from_history returns window_used = 3
\* exactly when the 3-day median collection and the 3-day sales collection
\* both hold at least max(6, min_points / 2) entries, the half real-valued;
\* otherwise window_used = "all".
C20_RealValuedHalf ==
    LET c7 == fn.now_utc - PrimaryDays * Day
        c3 == fn.now_utc - ReducedDays * Day
    IN  ( /\ fn.out.op = "baselines"
          /\ \/ CountIn(fn.hist, c7, "median") < fn.min_points
             \/ CountIn(fn.hist, c7, "sales24h") < fn.min_points )
            => /\ fn.out.used_days = "3"
                    <=> /\ AtLeastRealHalf(CountIn(fn.hist, c3, "median"), fn.min_points)
                        /\ AtLeastRealHalf(CountIn(fn.hist, c3, "sales24h"), fn.min_points)
               /\ fn.out.used_days # "3" => fn.out.used_days = "all"

----------------------------------------------------------------------------
\* the latest iteration appended a pump signal of this kind
Pumped(kind) == \E i \in 1..Len(NewPump) : NewPump[i].kind = kind

\* twice the median of the short window is present and the window holds
\* pump_min_pts samples
ShortBaseline ==
    /\ Len(step.short_meds) >= pump_min_pts
    /\ robust_median(step.short_meds) # None

\* the momentum conditions of the latest iteration: time has passed since a
\* previous observation with a median, the hourly rate of the estimated
\* sales since then is >= baseline hourly rate * momentum_mult, and the
\* median rose by confirm_price
MomentumHolds ==
    /\ step.rec.last # <<>>
    /\ step.base_sales.den # 0
    /\ step.base_sales.num > 0
    /\ step.median # None
    /\ LET last == step.rec.last[1]
           dt == now - last.ts
           num == step.sales24h * DayTicks
                     - last.sales24h * (DayTicks - Max2(0, Min2(DayTicks, dt)))
           est == IF num > 0 THEN RoundHalfEven(num, DayTicks) ELSE 0
       IN  /\ last.ts # BadTs
           /\ last.median # None
           /\ last.sales24h # None
           /\ dt > 0
           /\ dt <= (est * Hour * step.base_sales.den * 240)
                        \div (step.base_sales.num * momentum_mult)
           /\ step.median * PctDen >= last.median * (PctDen + confirm_price)

\* the threshold and minimum-sample conditions of the other kinds
PriceDue ==
    /\ step.median # None
    /\ step.base_median # None
    /\ Entered("median") >= p_min_pts
    /\ SoftHolds

VolumeDue ==
    /\ step.base_sales.den # 0
    /\ step.base_sales.num > 0
    /\ Entered("sales24h") >= v_min_pts
    /\ RatioSpikes(step.sales24h, step.base_sales)

PriceJumpDue ==
    /\ ShortBaseline
    /\ step.median # None
    /\ step.median * 2 * PctDen
          >= robust_median(step.short_meds) * (PctDen + price_jump_pct)

AskJumpDue ==
    /\ ShortBaseline
    /\ step.ask # None
    /\ step.ask * 2 * PctDen
          >= robust_median(step.short_meds) * (PctDen + ask_jump_pct)

\* against the last breakout_n samples, or all of them when there are fewer
BreakoutDue ==
    /\ ShortBaseline
    /\ step.median # None
    /\ step.median * PctDen
          >= MaxSeq(LastN(step.short_meds, breakout_n)) * (PctDen + breakout_eps)

\* C18: an iteration emits the price-discount, volume-spike and pump
\* signals whose threshold and minimum-sample conditions hold, whatever was
\* emitted before and whatever the last-alert map holds, and an iteration
\* that emits no combo leaves the item's last-alert map as it was.
C18_OnlyComboSuppressed ==
    Reached
        => /\ PriceDue => NewPrice # <<>>
           /\ VolumeDue => NewVol # <<>>
           /\ PriceJumpDue => Pumped("PRICE-JUMP")
           /\ AskJumpDue => Pumped("ASK-JUMP")
           /\ BreakoutDue => Pumped("BREAKOUT")
           /\ MomentumHolds => Pumped("MOMENTUM")
           /\ NewCombo = <<>>
                 => state[step.key].last_alerts = step.rec.last_alerts

----------------------------------------------------------------------------
\* C19: an iteration for key K leaves the record of every other key in the
\* state dict as it was, and the state a run saves holds the loaded record
\* of every key that is not in the run's catalog.
C19_OtherKeysUntouched ==
    /\ [][(pc = "loop" /\ idx' = idx + 1)
             => \A k \in Keys \ {items[idx + 1]} : state'[k] = state[k]]_vars
    /\ [](pc \in {"report", "idle"}
             => \A k \in Keys \ Range(items) : disk[k] = loaded.disk[k])

\* a run over A alone updated A and saved; the stored record of B, which is
\* not in the catalog, is the loaded one
C19_Witness ==
    /\ pc = "report"
    /\ items = <<"A">>
    /\ step.outcome = "updated"
    /\ disk["A"] # loaded.disk["A"]
    /\ disk["B"].stored
    /\ disk["B"] = loaded.disk["B"]

----------------------------------------------------------------------------
\* an HTTP error that is not retried: 4xx other than 429
NonRetryable(resp) ==
    /\ resp.code >= ClientError
    /\ resp.code < ServerError
    /\ resp.code # TooManyRequests

\* C21: under any sequence of responses one call of fetch_priceoverview
\* issues at most retries + 1 requests and ends by returning or raising; a
\* 4xx other than 429 raises at once, and as the first response it leaves
\* the call at one request.
C21_BoundedRetry ==
    /\ [](fetch.requests <= fetch.retries + 1)
    /\ <>(fetch.status \in {"returned", "raised"})
    /\ []((fetch.seen # <<>> /\ NonRetryable(fetch.seen[Len(fetch.seen)]))
            => fetch.status = "raised")
    /\ []((fetch.seen # <<>> /\ NonRetryable(fetch.seen[1]))
            => fetch.requests = 1)

\* retries = 2: a 429, a network failure and a 500, then the call raises
C21_Witness ==
    /\ fetch.retries = 2
    /\ fetch.status = "raised"
    /\ fetch.requests = 3
    /\ fetch.seen[1].code = TooManyRequests
    /\ fetch.seen[2].code = NoResponse
    /\ fetch.seen[3].code = ServerError

----------------------------------------------------------------------------
\* the latest iteration appended nothing to the signal lists
NoNewSignal ==
    /\ NewPrice = <<>>
    /\ NewVol = <<>>
    /\ NewCombo = <<>>
    /\ NewPump = <<>>

\* C22: an iteration that ended in an [ERROR] note appended no signal event
\* and left the item's record, last-alert map included, as it was; an
\* iteration that appended a signal event updated the item's history and
\* last snapshot.
C22_AllOrNothing ==
    /\ step.outcome \in {"raise", "error"}
          => (NoNewSignal /\ state[step.key] = step.rec)
    /\ (Reached /\ ~NoNewSignal)
          => LET rec == state[step.key]
             IN  /\ step.outcome = "updated"
                 /\ rec.last = <<Snapshot(step.median, step.ask, step.sales24h,
                                          IsoOf(now))>>
                 /\ rec.history # <<>>
                 /\ rec.history[Len(rec.history)]
                       = Point(IsoOf(now), step.median, step.sales24h)

----------------------------------------------------------------------------
\* the last snapshot of a stored record repeats the final record of its
\* history
LastIsTail(rec) ==
    rec.stored
        => /\ rec.history # <<>>
           /\ rec.last # <<>>
           /\ LET tail == rec.history[Len(rec.history)]
                  last == rec.last[1]
              IN  /\ last.ts = tail.ts
                  /\ last.median = tail.median
                  /\ last.sales24h = tail.sales24h

\* C23: after any sequence of runs every stored item has a non-empty
\* history, and the timestamp, median and sales24h of its last snapshot are
\* those of the final record of the history (in the state dict of a run and
\* in the state file).
C23_LastIsHistoryTail ==
    \A k \in Keys : LastIsTail(state[k]) /\ LastIsTail(disk[k])

\* a saved update on top of a stored history: the snapshot and the tail are
\* the new observation
C23_Witness ==
    /\ pc = "report"
    /\ step.outcome = "updated"
    /\ step.rec.stored
    /\ step.median # None
    /\ step.median # step.rec.last[1].median
    /\ Len(disk[step.key].history) >= 3
    /\ disk[step.key].last[1].median = step.median
    /\ disk[step.key].last[1].ts = IsoOf(now)

====
